---- MODULE Spec2Model ----
(***************************************************************************)
(* House-price regression pipeline (house-predict-py): load_data ->        *)
(* preprocess_data -> prepare_model_data -> train_model -> evaluate_model  *)
(* -> get_model_formula -> save_model / load_model, and the main() driver. *)
(*                                                                         *)
(* Floating-point numbers are modelled as exact rationals [n, d] in lowest *)
(* terms, plus NaN (d = 0).  sqrt is the one operation that leaves the     *)
(* rationals: it is rounded down to a multiple of 1/SqrtGrid, as a float   *)
(* sqrt is rounded to a representable number.                              *)
(***************************************************************************)
EXTENDS Integers, Sequences, FiniteSets, TLC

VARIABLES
    pc,            \* position of the caller (main, or a direct library call)
    called,        \* the function the caller called last
    args,          \* parsed command line (main.py parse_arguments)
    csv,           \* the file at args.input, as load_data found it
    df,            \* DataFrame returned by load_data
    processed_df,  \* DataFrame returned by preprocess_data
    data,          \* ModelData returned by prepare_model_data
    model,         \* LinearRegression: coef_, intercept_
    scaler,        \* StandardScaler: mean_, scale_
    result,        \* ModelResult returned by evaluate_model
    formula,       \* (intercept, coefficients) returned by get_model_formula
    modelFile,     \* file at args.model_path
    metadataFile,  \* file at args.metadata_path
    loaded,        \* value returned by the last load_model call
    predictions,   \* array returned by the last make_predictions call
    raised,        \* exception propagating out of the last call ("none" if it returned)
    exit_code,     \* value returned by main (-1 while running)
    diagnostic,    \* which except clause of main logged the error
    history        \* bookkeeping: which save_model call wrote each file

vars == <<pc, called, args, csv, df, processed_df, data, model, scaler, result, formula,
          modelFile, metadataFile, loaded, predictions, raised, exit_code, diagnostic,
          history>>

----------------------------------------------------------------------------
(* Bounds of the model *)

\* rows of an input file read by a run of main
MaxRows == 5
\* rows of an input dataset handed to preprocess_data directly
MaxCleanRows == 13
\* rows that differ from the typical row in such a dataset
MaxSpecialRows == 2
\* sqrt is rounded down to a multiple of 1/SqrtGrid
SqrtGrid == 16
\* save_model calls in a sequence of direct save/load calls
MaxSaves == 2

----------------------------------------------------------------------------
(* config.py *)

test_size == [n |-> 1, d |-> 5]
outlier_threshold == 3
required_cols == <<"square_footage", "bedrooms", "price_thousands">>
feature_cols == <<"square_footage", "bedrooms">>
target_col == "price_thousands"

Range(s) == {s[i] : i \in DOMAIN s}

\* F(a), with a evaluated once however often F uses it
Let1(F(_), a) == CHOOSE r \in {F(x) : x \in {a}} : TRUE
\* the sequence f with every element evaluated
Tuple(f) == f \o <<>>

----------------------------------------------------------------------------
(* Numbers *)

Abs(x) == IF x < 0 THEN -x ELSE x

RECURSIVE GCD(_, _)
GCD(a, b) == IF b = 0 THEN a ELSE GCD(b, a % b)

NaN == [n |-> 0, d |-> 0]
IsNaN(a) == a.d = 0

\* the rational n/d (d # 0) in lowest terms with a positive denominator
Rat(n, d) ==
    LET g == GCD(Abs(n), Abs(d))
        s == IF d < 0 THEN -1 ELSE 1
    IN  [n |-> s * (n \div g), d |-> s * (d \div g)]

R(k) == [n |-> k, d |-> 1]

RAdd(a, b) ==
    IF IsNaN(a) \/ IsNaN(b) THEN NaN
    ELSE LET g == GCD(a.d, b.d)
         IN  Rat(a.n * (b.d \div g) + b.n * (a.d \div g), (a.d \div g) * b.d)
RNeg(a) == [n |-> -a.n, d |-> a.d]
RSub(a, b) == RAdd(a, RNeg(b))
RMul(a, b) == IF IsNaN(a) \/ IsNaN(b) THEN NaN ELSE Rat(a.n * b.n, a.d * b.d)
\* 0/0 is NaN; the model never divides a non-zero number by zero
RDiv(a, b) == IF IsNaN(a) \/ IsNaN(b) \/ b.n = 0 THEN NaN ELSE Rat(a.n * b.d, a.d * b.n)
\* comparisons with NaN are false, as in IEEE 754
RLe(a, b) == ~IsNaN(a) /\ ~IsNaN(b) /\ a.n * b.d <= b.n * a.d
RLt(a, b) == ~IsNaN(a) /\ ~IsNaN(b) /\ a.n * b.d < b.n * a.d

RECURSIVE SumTo(_, _)
\* f[1] + ... + f[k] over rationals
SumTo(f, k) == IF k = 0 THEN R(0) ELSE RAdd(SumTo(f, k - 1), f[k])
RSum(f) == SumTo(f, Len(f))

RECURSIVE ISumTo(_, _)
ISumTo(f, k) == IF k = 0 THEN 0 ELSE ISumTo(f, k - 1) + f[k]
ISum(f) == ISumTo(f, Len(f))

RECURSIVE ISqrtFrom(_, _)
ISqrtFrom(m, s) == IF (s + 1) * (s + 1) > m THEN s ELSE ISqrtFrom(m, s + 1)
\* floor of the square root of a natural number
ISqrt(m) == ISqrtFrom(m, 0)

\* np.sqrt of a non-negative number, rounded down to the grid
Sqrt(a) ==
    IF IsNaN(a) \/ a.n < 0 THEN NaN
    ELSE Rat(ISqrt((a.n * SqrtGrid * SqrtGrid) \div a.d), SqrtGrid)

----------------------------------------------------------------------------
(* Input files and DataFrames *)

\* a CSV field: numeric text, non-numeric text, or an empty field
Num(k) == [t |-> "num", v |-> k]
Junk == [t |-> "junk", v |-> 0]
Empty == [t |-> "empty", v |-> 0]
\* a value of a column after pd.to_numeric(errors="coerce")
Float(k) == [t |-> "float", v |-> k]
NaNCell == [t |-> "nan", v |-> 0]

NoFile == [exists |-> FALSE, parses |-> FALSE, columns |-> {}, rows |-> <<>>]
NoDf == [columns |-> {}, rows |-> <<>>]

\* a DataFrame row: its index label and its value in every column
MkRow(cols, i, t) ==
    [idx |-> i,
     val |-> [c \in cols |->
                IF c = "square_footage" THEN t[1]
                ELSE IF c = "bedrooms" THEN t[2]
                ELSE IF c = "price_thousands" THEN t[3]
                ELSE Junk]]

\* the file whose columns are cols and whose i-th record is the triple ts[i]
MkFile(cols, ts) ==
    [exists |-> TRUE, parses |-> TRUE, columns |-> cols,
     rows |-> [i \in 1..Len(ts) |-> MkRow(cols, i - 1, ts[i])]]

----------------------------------------------------------------------------
(* data_processing.py: load_data *)

Returned(v) == [raised |-> "none", value |-> v]
Raised(kind, v) == [raised |-> kind, value |-> v]

\* exceptions.py: DataProcessingError and ModelOperationError are two separate kinds
\* of Exception, neither derived from the other
IsInstance(kind, cls) == kind # "none" /\ (cls = "Exception" \/ kind = cls)

\* except Exception
IsException(kind) == IsInstance(kind, "Exception")

\* load_data with the required-column check left out
load_data_try_unvalidated(file) ==
    IF ~file.parses THEN Raised("ParserError", NoDf)
    ELSE Returned([columns |-> file.columns, rows |-> file.rows])

load_data_try(file) ==
    IF ~file.parses THEN Raised("ParserError", NoDf)
    ELSE LET missing_cols == Range(required_cols) \ file.columns
         IN  IF missing_cols # {} THEN Raised("DataProcessingError", NoDf)
             ELSE Returned([columns |-> file.columns, rows |-> file.rows])

load_data(file) ==
    IF ~file.exists THEN Raised("DataProcessingError", NoDf)
    ELSE LET r == load_data_try(file)
         IN  IF IsException(r.raised) THEN Raised("DataProcessingError", NoDf) ELSE r

----------------------------------------------------------------------------
(* data_processing.py: preprocess_data *)

to_numeric(cell) == IF cell.t \in {"num", "float"} THEN Float(cell.v) ELSE NaNCell

\* processed_df[col] = pd.to_numeric(processed_df[col], errors="coerce"), every required col
Coerce(d) ==
    [d EXCEPT !.rows =
        [i \in DOMAIN d.rows |->
            [d.rows[i] EXCEPT !.val =
                [c \in DOMAIN d.rows[i].val |->
                    IF c \in Range(required_cols) THEN to_numeric(d.rows[i].val[c])
                    ELSE d.rows[i].val[c]]]]]

RowHasNa(row) == \E c \in Range(required_cols) : row.val[c].t = "nan"

\* if isna().any().any(): dropna(subset=required_cols)
DropNa(d) ==
    IF \E i \in DOMAIN d.rows : RowHasNa(d.rows[i])
    THEN [d EXCEPT !.rows = SelectSeq(d.rows, LAMBDA row : ~RowHasNa(row))]
    ELSE d

\* value < mean - k*std  or  value > mean + k*std, for a column of n values with
\* sum S and sum of squares Q: mean = S/n and the sample std is
\* sqrt((n*Q - S*S) / (n*(n-1))); both sides are squared, so no root is taken.
\* With fewer than two rows std is NaN and every comparison is false.
IsOutlier(v, n, S, Q) ==
    /\ n >= 2
    /\ n * v # S
    /\ (n * v - S) * (n * v - S) * (n - 1)
          > outlier_threshold * outlier_threshold * n * (n * Q - S * S)

\* one pass of the outlier loop, for column col
FilterOutliers(d, col) ==
    LET vals == [i \in DOMAIN d.rows |-> d.rows[i].val[col].v]
        n == Len(vals)
        S == ISum(vals)
        Q == ISum([i \in 1..n |-> vals[i] * vals[i]])
    IN  IF \E i \in 1..n : IsOutlier(vals[i], n, S, Q)
        THEN [d EXCEPT !.rows = SelectSeq(d.rows, LAMBDA row : ~IsOutlier(row.val[col].v, n, S, Q))]
        ELSE d

\* the outlier loop with every column's mean and std taken before any row is dropped
OutlierLoop_upfront(d, k) ==
    LET n == Len(d.rows)
        S(col) == ISum([i \in 1..n |-> d.rows[i].val[col].v])
        Q(col) == ISum([i \in 1..n |-> d.rows[i].val[col].v * d.rows[i].val[col].v])
    IN  [d EXCEPT !.rows =
            SelectSeq(d.rows,
                      LAMBDA row : \A j \in k..Len(required_cols) :
                                      ~IsOutlier(row.val[required_cols[j]].v, n,
                                                 S(required_cols[j]), Q(required_cols[j])))]

RECURSIVE OutlierLoop(_, _)
\* for col in required_cols: ..., over the columns k..3
OutlierLoop(d, k) ==
    IF k > Len(required_cols) THEN d
    ELSE OutlierLoop(FilterOutliers(d, required_cols[k]), k + 1)

\* df.copy(): a new DataFrame with the same content
df_copy(d) == d

\* preprocess_data without the copy: the columns of the caller's DataFrame are replaced
preprocess_data_inplace(d) ==
    [input |-> Coerce(d), output |-> OutlierLoop(DropNa(Coerce(d)), 1)]

\* input: the caller's DataFrame as the call leaves it; output: the value returned
preprocess_data(d) ==
    LET copied == df_copy(d)
    IN  [input |-> d, output |-> OutlierLoop(DropNa(Coerce(copied)), 1)]

----------------------------------------------------------------------------
(* data_processing.py: prepare_model_data *)

NoData == [X_trained |-> <<>>, X_test |-> <<>>, y_trained |-> <<>>, y_test |-> <<>>]

\* np.random.RandomState(random_state = 42).permutation(n), 0-based as numpy gives it
Permutation42(n) ==
    CASE n = 1 -> <<0>>
      [] n = 2 -> <<1, 0>>
      [] n = 3 -> <<0, 1, 2>>
      [] n = 4 -> <<1, 3, 0, 2>>
      [] n = 5 -> <<1, 4, 2, 0, 3>>
      [] n = 6 -> <<0, 1, 5, 2, 4, 3>>
      [] n = 7 -> <<0, 1, 5, 2, 4, 3, 6>>
      [] n = 8 -> <<1, 5, 0, 7, 2, 4, 3, 6>>
      [] n = 9 -> <<7, 1, 5, 0, 8, 2, 4, 3, 6>>
      [] n = 10 -> <<8, 1, 5, 0, 7, 2, 9, 4, 3, 6>>
      [] n = 11 -> <<5, 0, 9, 10, 2, 1, 8, 4, 7, 3, 6>>
      [] n = 12 -> <<10, 9, 0, 8, 5, 2, 1, 11, 4, 7, 3, 6>>
      [] n = 13 -> <<11, 9, 0, 8, 5, 2, 1, 12, 4, 7, 10, 3, 6>>

\* ceil(test_size * n)
NTest(n) == (test_size.n * n + test_size.d - 1) \div test_size.d

\* the split with the train slice starting one entry early
SplitIndices_overlap(n) ==
    LET perm == Permutation42(n)
        n_test == NTest(n)
    IN  [test |-> [k \in 1..n_test |-> perm[k] + 1],
         train |-> [k \in 1..(n - n_test) |-> perm[n_test + k - 1] + 1]]

\* ShuffleSplit: the first n_test entries of the permutation are the test rows, the
\* rest the train rows (as 1-based positions in the DataFrame)
SplitIndices(n) ==
    LET perm == Permutation42(n)
        n_test == NTest(n)
    IN  [test |-> [k \in 1..n_test |-> perm[k] + 1],
         train |-> [k \in 1..(n - n_test) |-> perm[n_test + k] + 1]]

prepare_model_data(d) ==
    LET n == Len(d.rows)
        X == [i \in 1..n |-> [j \in 1..Len(feature_cols) |-> d.rows[i].val[feature_cols[j]].v]]
        y == [i \in 1..n |-> d.rows[i].val[target_col].v]
    IN  \* train_test_split refuses an empty train set
        IF n - NTest(n) <= 0 THEN Raised("ValueError", NoData)
        ELSE LET s == SplitIndices(n)
             IN  Returned([X_trained |-> [k \in DOMAIN s.train |-> X[s.train[k]]],
                           X_test |-> [k \in DOMAIN s.test |-> X[s.test[k]]],
                           y_trained |-> [k \in DOMAIN s.train |-> y[s.train[k]]],
                           y_test |-> [k \in DOMAIN s.test |-> y[s.test[k]]]])

----------------------------------------------------------------------------
(* model.py: train_model *)

NoModel == [coef_ |-> <<>>, intercept_ |-> NaN]
NoScaler == [mean_ |-> <<>>, scale_ |-> <<>>]

Column(X, j) == [i \in DOMAIN X |-> R(X[i][j])]
Mean(v) == RDiv(RSum(v), R(Len(v)))
\* population variance of v, whose mean is m
Variance(v, m) == Mean([i \in DOMAIN v |-> RMul(RSub(v[i], m), RSub(v[i], m))])

\* _handle_zeros_in_scale: a zero standard deviation is replaced by 1
handle_zeros_in_scale(std) == IF std.n = 0 THEN R(1) ELSE std

\* StandardScaler.fit: per-feature mean and population standard deviation of X
scaler_fit(X) ==
    Let1(LAMBDA mean_ :
            [mean_ |-> mean_,
             scale_ |-> Tuple([j \in 1..Len(feature_cols) |->
                                handle_zeros_in_scale(Sqrt(Variance(Column(X, j), mean_[j])))])],
         Tuple([j \in 1..Len(feature_cols) |-> Mean(Column(X, j))]))

\* StandardScaler.transform: (x - mean_) / scale_, column-wise
scaler_transform(sc, X) ==
    Tuple([i \in DOMAIN X |->
            Tuple([j \in 1..Len(feature_cols) |->
                    RDiv(RSub(R(X[i][j]), sc.mean_[j]), sc.scale_[j])])])

Dot(u, v) == RSum([i \in DOMAIN u |-> RMul(u[i], v[i])])

\* the means of the two features and of the target, and the sums of products of the
\* centred columns
Moments(Z, y) ==
    Let1(LAMBDA m :
            Let1(LAMBDA c :
                    [m1 |-> m[1], m2 |-> m[2], my |-> m[3],
                     s11 |-> Dot(c[1], c[1]), s12 |-> Dot(c[1], c[2]), s22 |-> Dot(c[2], c[2]),
                     b1 |-> Dot(c[1], c[3]), b2 |-> Dot(c[2], c[3])],
                 <<Tuple([i \in DOMAIN Z |-> RSub(Z[i][1], m[1])]),
                   Tuple([i \in DOMAIN Z |-> RSub(Z[i][2], m[2])]),
                   Tuple([i \in DOMAIN y |-> RSub(R(y[i]), m[3])])>>),
         <<Mean([i \in DOMAIN Z |-> Z[i][1]]), Mean([i \in DOMAIN Z |-> Z[i][2]]),
           Mean([i \in DOMAIN y |-> R(y[i])])>>)

\* the least-squares coefficients; when the centred features are linearly dependent,
\* the least-squares solution of least norm (scipy.linalg.lstsq)
LeastSquares(q) ==
    Let1(LAMBDA det :
            IF det.n # 0
            THEN <<RDiv(RSub(RMul(q.b1, q.s22), RMul(q.b2, q.s12)), det),
                   RDiv(RSub(RMul(q.b2, q.s11), RMul(q.b1, q.s12)), det)>>
            ELSE IF q.s11.n = 0 /\ q.s22.n = 0 THEN <<R(0), R(0)>>
            ELSE IF q.s11.n = 0 THEN <<R(0), RDiv(q.b2, q.s22)>>
            ELSE IF q.s22.n = 0 THEN <<RDiv(q.b1, q.s11), R(0)>>
            ELSE Let1(LAMBDA t :
                        Let1(LAMBDA w : <<w, RMul(w, t)>>,
                             RDiv(RDiv(q.b1, q.s11), RAdd(R(1), RMul(t, t)))),
                      RDiv(q.s12, q.s11)),
         RSub(RMul(q.s11, q.s22), RMul(q.s12, q.s12)))

\* LinearRegression.fit on two features: least squares on the centred data,
\* intercept_ = mean(y) - mean(X) . coef_
linear_fit(Z, y) ==
    Let1(LAMBDA q :
            Let1(LAMBDA coef :
                    [coef_ |-> coef,
                     intercept_ |-> RSub(q.my, RAdd(RMul(coef[1], q.m1), RMul(coef[2], q.m2)))],
                 LeastSquares(q)),
         Moments(Z, y))

\* train_model with the scaler fitted on the train and the test rows together
train_model_all_rows(d) ==
    IF Len(d.X_trained) = 0 THEN Raised("ValueError", [model |-> NoModel, scaler |-> NoScaler])
    ELSE Let1(LAMBDA sc :
                Let1(LAMBDA X_scaled :
                        Returned([model |-> linear_fit(X_scaled, d.y_trained), scaler |-> sc]),
                     scaler_transform(sc, d.X_trained)),
              scaler_fit(d.X_trained \o d.X_test))

train_model(d) ==
    \* fit_transform refuses an array with no samples
    IF Len(d.X_trained) = 0 THEN Raised("ValueError", [model |-> NoModel, scaler |-> NoScaler])
    ELSE Let1(LAMBDA sc :
                Let1(LAMBDA X_scaled :
                        Returned([model |-> linear_fit(X_scaled, d.y_trained), scaler |-> sc]),
                     scaler_transform(sc, d.X_trained)),
              scaler_fit(d.X_trained))

----------------------------------------------------------------------------
(* model.py: evaluate_model *)

NoResult ==
    [model |-> NoModel, scaler |-> NoScaler,
     train_predictions |-> <<>>, test_predictions |-> <<>>,
     train_r2 |-> NaN, test_r2 |-> NaN, train_rmse |-> NaN, test_rmse |-> NaN]

\* LinearRegression.predict: X . coef_ + intercept_
model_predict(m, Z) == Tuple([i \in DOMAIN Z |-> RAdd(Dot(Z[i], m.coef_), m.intercept_)])

SquaredError(y_true, y_pred) ==
    RSum([i \in DOMAIN y_true |->
            RMul(RSub(R(y_true[i]), y_pred[i]), RSub(R(y_true[i]), y_pred[i]))])

\* sklearn.metrics.r2_score: NaN with fewer than two samples; with a constant
\* target, 1.0 for a perfect prediction and 0.0 otherwise
r2_score(y_true, y_pred) ==
    IF Len(y_pred) < 2 THEN NaN
    ELSE Let1(LAMBDA numerator :
                Let1(LAMBDA denominator :
                        IF denominator.n # 0 THEN RSub(R(1), RDiv(numerator, denominator))
                        ELSE IF numerator.n = 0 THEN R(1) ELSE R(0),
                     LET yy == [i \in DOMAIN y_true |-> R(y_true[i])]
                     IN  RMul(Variance(yy, Mean(yy)), R(Len(yy)))),
              SquaredError(y_true, y_pred))

mean_squared_error(y_true, y_pred) == RDiv(SquaredError(y_true, y_pred), R(Len(y_true)))

evaluate_model(d, m, sc) ==
    \* transform refuses an array with no samples
    IF Len(d.X_trained) = 0 \/ Len(d.X_test) = 0 THEN Raised("ValueError", NoResult)
    ELSE Let1(LAMBDA trained_predictions :
                Let1(LAMBDA test_predictions :
                        Returned([model |-> m, scaler |-> sc,
                                  train_predictions |-> trained_predictions,
                                  test_predictions |-> test_predictions,
                                  train_r2 |-> r2_score(d.y_trained, trained_predictions),
                                  test_r2 |-> r2_score(d.y_test, test_predictions),
                                  train_rmse |->
                                      Sqrt(mean_squared_error(d.y_trained, trained_predictions)),
                                  test_rmse |->
                                      Sqrt(mean_squared_error(d.y_test, test_predictions))]),
                     model_predict(m, scaler_transform(sc, d.X_test))),
              model_predict(m, scaler_transform(sc, d.X_trained)))

----------------------------------------------------------------------------
(* model.py: get_model_formula *)

NoFormula == [intercept |-> NaN, coefficients |-> <<>>]

get_model_formula(res) ==
    LET m == res.model
        sc == res.scaler
        coefficients == [i \in 1..Len(m.coef_) |-> RDiv(m.coef_[i], sc.scale_[i])]
        \* after the loop i is still the last index: model.coef_[i] is the last
        \* coefficient, multiplied into every mean_/scale_ term of the sum
        i == Len(m.coef_)
        intercept == RSub(m.intercept_,
                          RSum([j \in 1..Len(sc.mean_) |->
                                  RDiv(RMul(m.coef_[i], sc.mean_[j]), sc.scale_[j])]))
    IN  [intercept |-> intercept, coefficients |-> coefficients]

----------------------------------------------------------------------------
(* data_processing.py: make_predictions *)

\* df[cols].to_numpy()
to_numpy(d, cols) ==
    [i \in 1..Len(d.rows) |-> [j \in 1..Len(cols) |-> d.rows[i].val[cols[j]].v]]

\* the try block of make_predictions: transform refuses an array with no samples, and
\* an array whose number of columns is not the number of features the scaler was
\* fitted on
make_predictions_try(d, m, sc) ==
    LET X == to_numpy(d, required_cols)
    IN  IF Len(X) = 0 THEN Raised("ValueError", <<>>)
        ELSE IF Len(required_cols) # Len(sc.mean_) THEN Raised("ValueError", <<>>)
        ELSE Returned(model_predict(m, scaler_transform(sc, X)))

make_predictions(d, m, sc) ==
    LET r == make_predictions_try(d, m, sc)
    IN  IF IsException(r.raised) THEN Raised("ModelOperationError", <<>>) ELSE r

----------------------------------------------------------------------------
(* model.py: save_model, load_model *)

\* one item of a serialized file: a tag, a string or a number
Tok(k, str, x) == [k |-> k, s |-> str, x |-> x]
Mark(k) == Tok(k, "", R(0))
NumTok(k, x) == Tok(k, "", x)
StrTok(k, str) == Tok(k, str, R(0))

NoBytes == <<>>
Missing == [exists |-> FALSE, bytes |-> NoBytes]
FileOf(bytes) == [exists |-> TRUE, bytes |-> bytes]

NoComponents == [keys |-> {}, model |-> NoModel, scaler |-> NoScaler]
NoMetadata ==
    [coefficients |-> <<>>, intercept |-> NaN, feature |-> <<>>, target |-> "",
     train_r2 |-> NaN, test_r2 |-> NaN, train_rmse |-> NaN, test_rmse |-> NaN]
NoLoaded == [model |-> NoModel, scaler |-> NoScaler, metadata |-> NoMetadata]

\* pickle.dump({"model": ..., "scaler": ...}, f)
pickle_dump(c) ==
    <<Mark("dict"),
      StrTok("key", "model"),
      NumTok("coef_", c.model.coef_[1]), NumTok("coef_", c.model.coef_[2]),
      NumTok("intercept_", c.model.intercept_),
      StrTok("key", "scaler"),
      NumTok("mean_", c.scaler.mean_[1]), NumTok("mean_", c.scaler.mean_[2]),
      NumTok("scale_", c.scaler.scale_[1]), NumTok("scale_", c.scaler.scale_[2]),
      Mark("stop")>>

PickleTags ==
    <<"dict", "key", "coef_", "coef_", "intercept_", "key", "mean_", "mean_",
      "scale_", "scale_", "stop">>

\* pickle.load reading the scaler's two arrays in the wrong order
pickle_load_swapped(bytes) ==
    IF Len(bytes) = Len(PickleTags) /\ \A i \in DOMAIN bytes : bytes[i].k = PickleTags[i]
    THEN Returned([keys |-> {bytes[2].s, bytes[6].s},
                   model |-> [coef_ |-> <<bytes[3].x, bytes[4].x>>, intercept_ |-> bytes[5].x],
                   scaler |-> [mean_ |-> <<bytes[9].x, bytes[10].x>>,
                               scale_ |-> <<bytes[7].x, bytes[8].x>>]])
    ELSE Raised("UnpicklingError", NoComponents)

\* pickle.load(f): fails on a truncated or foreign file
pickle_load(bytes) ==
    IF Len(bytes) = Len(PickleTags) /\ \A i \in DOMAIN bytes : bytes[i].k = PickleTags[i]
    THEN Returned([keys |-> {bytes[2].s, bytes[6].s},
                   model |-> [coef_ |-> <<bytes[3].x, bytes[4].x>>, intercept_ |-> bytes[5].x],
                   scaler |-> [mean_ |-> <<bytes[7].x, bytes[8].x>>,
                               scale_ |-> <<bytes[9].x, bytes[10].x>>]])
    ELSE Raised("UnpicklingError", NoComponents)

\* json.dump(metadata, f, indent=4)
json_dump(m) ==
    <<Mark("{"),
      NumTok("coefficients", m.coefficients[1]), NumTok("coefficients", m.coefficients[2]),
      NumTok("intercept", m.intercept),
      StrTok("feature", m.feature[1]), StrTok("feature", m.feature[2]),
      StrTok("target", m.target),
      NumTok("train_r2", m.train_r2), NumTok("test_r2", m.test_r2),
      NumTok("train_rmse", m.train_rmse), NumTok("test_rmse", m.test_rmse),
      Mark("}")>>

JsonTags ==
    <<"{", "coefficients", "coefficients", "intercept", "feature", "feature", "target",
      "train_r2", "test_r2", "train_rmse", "test_rmse", "}">>

\* json.load(f): fails on a truncated or foreign file
json_load(bytes) ==
    IF Len(bytes) = Len(JsonTags) /\ \A i \in DOMAIN bytes : bytes[i].k = JsonTags[i]
    THEN Returned([coefficients |-> <<bytes[2].x, bytes[3].x>>, intercept |-> bytes[4].x,
                   feature |-> <<bytes[5].s, bytes[6].s>>, target |-> bytes[7].s,
                   train_r2 |-> bytes[8].x, test_r2 |-> bytes[9].x,
                   train_rmse |-> bytes[10].x, test_rmse |-> bytes[11].x])
    ELSE Raised("JSONDecodeError", NoMetadata)

\* what the file system does to a save_model call: nothing, or an OSError when a
\* file is opened, or after part of it is written
Faults == {"none", "model_open", "model_write", "metadata_open", "metadata_write"}

\* the bytes a failed write leaves behind: none, or all but the last item
Partial(bytes, short) == IF short THEN NoBytes ELSE SubSeq(bytes, 1, Len(bytes) - 1)
Shorts == {FALSE}

metadata_of(res) ==
    LET f == get_model_formula(res)
    IN  [coefficients |-> f.coefficients, intercept |-> f.intercept,
         feature |-> feature_cols, target |-> target_col,
         train_r2 |-> res.train_r2, test_r2 |-> res.test_r2,
         train_rmse |-> res.train_rmse, test_rmse |-> res.test_rmse]

\* the try block of save_model; value: the two files as the call leaves them
save_model_try(res, mf, metaf, fault, short) ==
    LET blob == pickle_dump([model |-> res.model, scaler |-> res.scaler])
        text == json_dump(metadata_of(res))
    IN  CASE fault = "model_open" ->
                Raised("OSError", [modelFile |-> mf, metadataFile |-> metaf])
          [] fault = "model_write" ->
                Raised("OSError", [modelFile |-> FileOf(Partial(blob, short)),
                                   metadataFile |-> metaf])
          [] fault = "metadata_open" ->
                Raised("OSError", [modelFile |-> FileOf(blob), metadataFile |-> metaf])
          [] fault = "metadata_write" ->
                Raised("OSError", [modelFile |-> FileOf(blob),
                                   metadataFile |-> FileOf(Partial(text, short))])
          [] OTHER ->
                Returned([modelFile |-> FileOf(blob), metadataFile |-> FileOf(text)])

save_model(res, mf, metaf, fault, short) ==
    LET r == save_model_try(res, mf, metaf, fault, short)
    IN  IF IsException(r.raised) THEN Raised("ModelOperationError", r.value) ELSE r

\* the try block of load_model
load_model_try(mf, metaf) ==
    IF ~mf.exists THEN Raised("ModelOperationError", NoLoaded)
    ELSE LET model_components == pickle_load(mf.bytes)
         IN  IF IsException(model_components.raised)
             THEN Raised(model_components.raised, NoLoaded)
             ELSE IF ~({"model", "scaler"} \subseteq model_components.value.keys)
             THEN Raised("KeyError", NoLoaded)
             ELSE IF ~metaf.exists THEN Raised("ModelOperationError", NoLoaded)
             ELSE LET metadata == json_load(metaf.bytes)
                  IN  IF IsException(metadata.raised) THEN Raised(metadata.raised, NoLoaded)
                      ELSE Returned([model |-> model_components.value.model,
                                     scaler |-> model_components.value.scaler,
                                     metadata |-> metadata.value])

\* load_model without its except clause
load_model_unwrapped(mf, metaf) == load_model_try(mf, metaf)

load_model(mf, metaf) ==
    LET r == load_model_try(mf, metaf)
    IN  IF IsException(r.raised) THEN Raised("ModelOperationError", NoLoaded) ELSE r

----------------------------------------------------------------------------
(* Inputs *)

\* records of an input file: <<square_footage, bedrooms, price_thousands>>
GoodRecords ==
    {<<Num(1), Num(1), Num(2)>>, <<Num(2), Num(1), Num(3)>>, <<Num(1), Num(2), Num(5)>>}
BadRecords == {<<Junk, Num(1), Num(2)>>}
Records == GoodRecords \cup BadRecords

SeqsUpTo(S, k) == UNION {[1..n -> S] : n \in 0..k}

RequiredSet == Range(required_cols)

\* the files main may find at args.input
CsvFiles ==
    {NoFile, [NoFile EXCEPT !.exists = TRUE]}
    \cup {MkFile(RequiredSet, ts) : ts \in SeqsUpTo(Records, MaxRows)}
    \cup {MkFile(cols, ts) :
            cols \in {RequiredSet \cup {"address"}} \cup {RequiredSet \ {c} : c \in RequiredSet},
            ts \in SeqsUpTo(Records, 2)}

Args == [load_model : BOOLEAN, save_model : BOOLEAN, no_plot : BOOLEAN]
NoArgs == [load_model |-> FALSE, save_model |-> FALSE, no_plot |-> FALSE]

\* a model saved by an earlier run
SampleData ==
    [X_trained |-> <<<<1, 1>>, <<2, 1>>, <<1, 2>>>>, X_test |-> <<<<2, 2>>>>,
     y_trained |-> <<2, 3, 5>>, y_test |-> <<4>>]
SampleResult ==
    LET t == train_model(SampleData).value
    IN  evaluate_model(SampleData, t.model, t.scaler).value
SampleFiles == save_model(SampleResult, Missing, Missing, "none", FALSE).value

\* a well-formed pickle of some other dictionary
ForeignPickle ==
    FileOf([i \in DOMAIN PickleTags |->
              IF PickleTags[i] = "key" THEN StrTok("key", "weights") ELSE Mark(PickleTags[i])])

ModelFiles0 == {Missing, FileOf(NoBytes), ForeignPickle, SampleFiles.modelFile}
MetadataFiles0 == {Missing, FileOf(NoBytes), SampleFiles.metadataFile}

NoHistory ==
    [saves |-> 0, modelBy |-> 0, metadataBy |-> 0, intact |-> FALSE,
     saved |-> NoResult, savedData |-> NoData]

----------------------------------------------------------------------------
(* main.py: main *)

\* the first except clause of main that matches an exception of this kind
\* main with the two specific clauses merged into one
except_clause_merged(kind) ==
    IF IsInstance(kind, "DataProcessingError") \/ IsInstance(kind, "ModelOperationError")
    THEN "failed to process data"
    ELSE "unexpected error"

except_clause(kind) ==
    IF IsInstance(kind, "DataProcessingError") THEN "failed to process data"
    ELSE IF IsInstance(kind, "ModelOperationError") THEN "model failed to run"
    ELSE "unexpected error"

InitCommon ==
    /\ called = ""
    /\ args = NoArgs
    /\ csv = NoFile
    /\ df = NoDf
    /\ processed_df = NoDf
    /\ data = NoData
    /\ model = NoModel
    /\ scaler = NoScaler
    /\ result = NoResult
    /\ formula = NoFormula
    /\ loaded = NoLoaded
    /\ predictions = <<>>
    /\ raised = "none"
    /\ exit_code = -1
    /\ diagnostic = ""
    /\ history = NoHistory

Init ==
    /\ pc = "main"
    /\ modelFile \in ModelFiles0
    /\ metadataFile \in MetadataFiles0
    /\ InitCommon

\* a stage of main raised: control goes to the except clauses
Fail(kind) == raised' = kind /\ pc' = "except"

\* args = parse_arguments(); a run that trains starts with no model files on disk
MainParseArguments ==
    /\ pc = "main"
    /\ called' = "parse_arguments"
    /\ \E a \in Args :
        /\ a.load_model \/ (modelFile = Missing /\ metadataFile = Missing)
        /\ args' = a
        /\ pc' = IF a.load_model THEN "load_model" ELSE "load_data"
    /\ UNCHANGED <<csv, df, processed_df, data, model, scaler, result, formula,
                   modelFile, metadataFile, loaded, raised, exit_code, diagnostic, history>>
    /\ UNCHANGED predictions

\* model, scaler, _ = load_model(args.model_path, args.metadata_path)
MainLoadModel ==
    /\ pc = "load_model"
    /\ called' = "load_model"
    /\ \E r \in {load_model(modelFile, metadataFile)} :
           IF r.raised # "none"
           THEN Fail(r.raised) /\ UNCHANGED <<model, scaler, loaded>>
           ELSE /\ loaded' = r.value
                /\ model' = r.value.model
                /\ scaler' = r.value.scaler
                /\ pc' = "return"
                /\ UNCHANGED raised
    /\ UNCHANGED <<args, csv, df, processed_df, data, result, formula,
                   modelFile, metadataFile, exit_code, diagnostic, history>>
    /\ UNCHANGED predictions

\* df = load_data(args.input)
MainLoadData ==
    /\ pc = "load_data"
    /\ called' = "load_data"
    /\ \E file \in CsvFiles :
        /\ csv' = file
        /\ \E r \in {load_data(file)} :
               IF r.raised # "none"
               THEN Fail(r.raised) /\ UNCHANGED df
               ELSE df' = r.value /\ pc' = "preprocess_data" /\ UNCHANGED raised
    /\ UNCHANGED <<args, processed_df, data, model, scaler, result, formula,
                   modelFile, metadataFile, loaded, exit_code, diagnostic, history>>
    /\ UNCHANGED predictions

\* processed_df = preprocess_data(df)
MainPreprocessData ==
    /\ pc = "preprocess_data"
    /\ called' = "preprocess_data"
    /\ \E r \in {preprocess_data(df)} :
        /\ df' = r.input
        /\ processed_df' = r.output
    /\ pc' = "prepare_model_data"
    /\ UNCHANGED <<args, csv, data, model, scaler, result, formula,
                   modelFile, metadataFile, loaded, raised, exit_code, diagnostic, history>>
    /\ UNCHANGED predictions

\* data = prepare_model_data(processed_df)
MainPrepareModelData ==
    /\ pc = "prepare_model_data"
    /\ called' = "prepare_model_data"
    /\ \E r \in {prepare_model_data(processed_df)} :
           IF r.raised # "none"
           THEN Fail(r.raised) /\ UNCHANGED data
           ELSE data' = r.value /\ pc' = "train_model" /\ UNCHANGED raised
    /\ UNCHANGED <<args, csv, df, processed_df, model, scaler, result, formula,
                   modelFile, metadataFile, loaded, exit_code, diagnostic, history>>
    /\ UNCHANGED predictions

\* model, scaler = train_model(data)
MainTrainModel ==
    /\ pc = "train_model"
    /\ called' = "train_model"
    /\ \E r \in {train_model(data)} :
           IF r.raised # "none"
           THEN Fail(r.raised) /\ UNCHANGED <<model, scaler>>
           ELSE /\ model' = r.value.model
                /\ scaler' = r.value.scaler
                /\ pc' = "evaluate_model"
                /\ UNCHANGED raised
    /\ UNCHANGED <<args, csv, df, processed_df, data, result, formula,
                   modelFile, metadataFile, loaded, exit_code, diagnostic, history>>
    /\ UNCHANGED predictions

\* result = evaluate_model(data, model, scaler)
MainEvaluateModel ==
    /\ pc = "evaluate_model"
    /\ called' = "evaluate_model"
    /\ \E r \in {evaluate_model(data, model, scaler)} :
           IF r.raised # "none"
           THEN Fail(r.raised) /\ UNCHANGED result
           ELSE result' = r.value /\ pc' = "print_result" /\ UNCHANGED raised
    /\ UNCHANGED <<args, csv, df, processed_df, data, model, scaler, formula,
                   modelFile, metadataFile, loaded, exit_code, diagnostic, history>>
    /\ UNCHANGED predictions

AfterPrint(a) ==
    IF a.save_model THEN "save_model" ELSE IF ~a.no_plot THEN "visualize" ELSE "return"

\* print_result(data, result): prints the formula, the metrics and sample rows
MainPrintResult ==
    /\ pc = "print_result"
    /\ called' = "print_result"
    /\ formula' = get_model_formula(result)
    /\ pc' = AfterPrint(args)
    /\ UNCHANGED <<args, csv, df, processed_df, data, model, scaler, result,
                   modelFile, metadataFile, loaded, raised, exit_code, diagnostic, history>>
    /\ UNCHANGED predictions

\* bookkeeping of a save_model call: which call wrote each file last
Record(h, res, d, fault) ==
    LET id == h.saves + 1
    IN  [saves |-> id,
         modelBy |-> IF fault = "model_open" THEN h.modelBy ELSE id,
         metadataBy |-> IF fault \in {"none", "metadata_write"} THEN id ELSE h.metadataBy,
         intact |-> fault = "none",
         saved |-> res,
         savedData |-> d]

\* if args.save_model: save_model(result, args.model_path, args.metadata_path)
MainSaveModel ==
    /\ pc = "save_model"
    /\ called' = "save_model"
    /\ \E fault \in Faults, short \in Shorts :
        \E r \in {save_model(result, modelFile, metadataFile, fault, short)} :
            /\ modelFile' = r.value.modelFile
            /\ metadataFile' = r.value.metadataFile
            /\ history' = Record(history, result, data, fault)
            /\ IF r.raised # "none" THEN Fail(r.raised)
               ELSE pc' = (IF ~args.no_plot THEN "visualize" ELSE "return") /\ UNCHANGED raised
    /\ UNCHANGED <<args, csv, df, processed_df, data, model, scaler, result, formula,
                   loaded, exit_code, diagnostic>>
    /\ UNCHANGED predictions

\* if not args.no_plot: create_visualization_data and the two plots; writing an
\* image may fail
MainVisualize ==
    /\ pc = "visualize"
    /\ called' = "create_visualization"
    /\ formula' = get_model_formula(result)
    /\ \E written \in BOOLEAN :
        IF written THEN pc' = "return" /\ UNCHANGED raised ELSE Fail("OSError")
    /\ UNCHANGED <<args, csv, df, processed_df, data, model, scaler, result,
                   modelFile, metadataFile, loaded, exit_code, diagnostic, history>>
    /\ UNCHANGED predictions

\* return 0
MainReturn ==
    /\ pc = "return"
    /\ UNCHANGED called
    /\ exit_code' = 0
    /\ pc' = "exited"
    /\ UNCHANGED <<args, csv, df, processed_df, data, model, scaler, result, formula,
                   modelFile, metadataFile, loaded, raised, diagnostic, history>>
    /\ UNCHANGED predictions

\* the except clauses: log the error, return 1
MainExcept ==
    /\ pc = "except"
    /\ UNCHANGED called
    /\ diagnostic' = except_clause(raised)
    /\ exit_code' = 1
    /\ pc' = "exited"
    /\ UNCHANGED <<args, csv, df, processed_df, data, model, scaler, result, formula,
                   modelFile, metadataFile, loaded, raised, history>>
    /\ UNCHANGED predictions

Next ==
    \/ MainParseArguments
    \/ MainLoadModel
    \/ MainLoadData
    \/ MainPreprocessData
    \/ MainPrepareModelData
    \/ MainTrainModel
    \/ MainEvaluateModel
    \/ MainPrintResult
    \/ MainSaveModel
    \/ MainVisualize
    \/ MainReturn
    \/ MainExcept

Spec == Init /\ [][Next]_vars

----------------------------------------------------------------------------
(* The library called directly (house_analysis/__init__.py exports every      *)
(* function): train_model, evaluate_model, save_model, load_model on inputs   *)
(* drawn from bounded sets, in any order, against the same two paths.         *)

\* the ModelData a caller passes: <<square_footage, bedrooms, price_thousands>> rows,
\* with no training rows, with a constant column (singular design matrix), with every
\* target equal, and in general position
ApiTrains ==
    {<<>>,
     <<<<1, 1, 2>>, <<2, 1, 3>>>>,
     <<<<1, 1, 4>>, <<2, 1, 4>>, <<1, 2, 4>>>>,
     <<<<1, 1, 2>>, <<2, 1, 3>>, <<1, 2, 5>>>>}
ApiTests == {<<>>, <<<<2, 2, 4>>>>, <<<<2, 2, 4>>, <<3, 1, 4>>>>}

MkData(train, test) ==
    [X_trained |-> [i \in DOMAIN train |-> <<train[i][1], train[i][2]>>],
     X_test |-> [i \in DOMAIN test |-> <<test[i][1], test[i][2]>>],
     y_trained |-> [i \in DOMAIN train |-> train[i][3]],
     y_test |-> [i \in DOMAIN test |-> test[i][3]]]

InitApi ==
    /\ pc = "api"
    /\ modelFile \in ModelFiles0
    /\ metadataFile \in MetadataFiles0
    /\ InitCommon

\* model, scaler = train_model(data), at most MaxSaves times, each followed by
\* evaluate_model and save_model
ApiTrainModel ==
    /\ pc = "api"
    /\ called \in {"", "save_model"}
    /\ history.saves < MaxSaves
    /\ called' = "train_model"
    /\ \E train \in ApiTrains, test \in ApiTests :
        /\ data' = MkData(train, test)
        /\ \E r \in {train_model(MkData(train, test))} :
            /\ raised' = r.raised
            /\ model' = r.value.model
            /\ scaler' = r.value.scaler
    /\ result' = NoResult
    /\ UNCHANGED <<pc, args, csv, df, processed_df, formula, modelFile, metadataFile,
                   loaded, exit_code, diagnostic, history>>
    /\ UNCHANGED predictions

\* result = evaluate_model(data, model, scaler), with the model train_model returned
ApiEvaluateModel ==
    /\ pc = "api"
    /\ called = "train_model"
    /\ raised = "none"
    /\ called' = "evaluate_model"
    /\ \E r \in {evaluate_model(data, model, scaler)} :
        /\ raised' = r.raised
        /\ result' = r.value
    /\ UNCHANGED <<pc, args, csv, df, processed_df, data, model, scaler, formula,
                   modelFile, metadataFile, loaded, exit_code, diagnostic, history>>
    /\ UNCHANGED predictions

\* save_model(result, model_path, metadata_path), with a result evaluate_model returned
ApiSaveModel ==
    /\ pc = "api"
    /\ called = "evaluate_model"
    /\ raised = "none"
    /\ called' = "save_model"
    /\ \E fault \in Faults, short \in Shorts :
        \E r \in {save_model(result, modelFile, metadataFile, fault, short)} :
            /\ modelFile' = r.value.modelFile
            /\ metadataFile' = r.value.metadataFile
            /\ history' = Record(history, result, data, fault)
            /\ raised' = r.raised
    /\ UNCHANGED <<pc, args, csv, df, processed_df, data, model, scaler, result, formula,
                   loaded, exit_code, diagnostic>>
    /\ UNCHANGED predictions

\* load_model(model_path, metadata_path)
ApiLoadModel ==
    /\ pc = "api"
    /\ called' = "load_model"
    /\ \E r \in {load_model(modelFile, metadataFile)} :
        /\ raised' = r.raised
        /\ loaded' = r.value
    /\ UNCHANGED <<pc, args, csv, df, processed_df, data, model, scaler, result, formula,
                   modelFile, metadataFile, exit_code, diagnostic, history>>
    /\ UNCHANGED predictions

\* somebody deletes one of the two files
RemoveFile ==
    /\ pc = "api"
    /\ called \in {"save_model", "load_model"}
    /\ \/ modelFile.exists /\ modelFile' = Missing /\ UNCHANGED metadataFile
       \/ metadataFile.exists /\ metadataFile' = Missing /\ UNCHANGED modelFile
    /\ history' = [history EXCEPT !.intact = FALSE]
    /\ called' = "remove"
    /\ UNCHANGED <<pc, args, csv, df, processed_df, data, model, scaler, result, formula,
                   loaded, raised, exit_code, diagnostic>>
    /\ UNCHANGED predictions

\* the cleaned datasets a caller predicts on
ApiFrames ==
    {preprocess_data(load_data(MkFile(RequiredSet, ts)).value).output :
        ts \in {<<>>, <<<<Num(2), Num(2), Num(4)>>>>,
                <<<<Num(1), Num(1), Num(2)>>, <<Junk, Num(1), Num(2)>>, <<Num(3), Num(1), Num(4)>>>>}}

\* make_predictions(processed_df, model, scaler), with the model and scaler train_model
\* returned or the ones load_model returned
ApiMakePredictions ==
    /\ pc = "api"
    /\ called \in {"train_model", "evaluate_model", "load_model"}
    /\ raised = "none"
    /\ called' = "make_predictions"
    /\ \E frame \in ApiFrames :
        /\ processed_df' = frame
        /\ \E r \in {IF called = "load_model"
                      THEN make_predictions(frame, loaded.model, loaded.scaler)
                      ELSE make_predictions(frame, model, scaler)} :
            /\ raised' = r.raised
            /\ predictions' = r.value
    /\ UNCHANGED <<pc, args, csv, df, data, model, scaler, result, formula,
                   modelFile, metadataFile, loaded, exit_code, diagnostic, history>>

NextApi ==
    \/ ApiMakePredictions
    \/ ApiTrainModel
    \/ ApiEvaluateModel
    \/ ApiSaveModel
    \/ ApiLoadModel
    \/ RemoveFile

SpecApi == InitApi /\ [][NextApi]_vars

----------------------------------------------------------------------------
(* preprocess_data on larger files: an input file is written record by record, *)
(* then loaded and cleaned.                                                     *)

TypicalRecord == <<Num(10), Num(2), Num(5)>>
\* records with a value far from the typical one in one column or two, a record that
\* puts another record's value exactly on a bound (among 11 rows with square_footage 10
\* nine times, 19 and 100: mean 19, std 27, upper bound 100), and records with a field
\* that is not a number
SpecialRecords ==
    {<<Num(100), Num(2), Num(5)>>, <<Num(10), Num(40), Num(5)>>, <<Num(100), Num(40), Num(5)>>,
     <<Num(19), Num(2), Num(5)>>,
     <<Num(10), Num(2), Num(90)>>, <<Junk, Num(2), Num(5)>>, <<Num(10), Num(2), Empty>>}

IsSpecial(row) ==
    <<row.val["square_footage"], row.val["bedrooms"], row.val["price_thousands"]>>
        # TypicalRecord

InitClean ==
    /\ pc = "write"
    /\ modelFile = Missing
    /\ metadataFile = Missing
    /\ InitCommon

\* one more record is written to the input file; the typical records are written one
\* after the other, the others before or after them (the statistics of a column do not
\* depend on the order of its rows)
CleanWrite ==
    /\ pc = "write"
    /\ Len(csv.rows) < MaxCleanRows
    /\ \E t \in {TypicalRecord} \cup SpecialRecords :
        /\ t # TypicalRecord =>
              Cardinality({i \in DOMAIN csv.rows : IsSpecial(csv.rows[i])}) < MaxSpecialRows
        /\ t = TypicalRecord =>
              IF \A i \in DOMAIN csv.rows : IsSpecial(csv.rows[i]) THEN TRUE
              ELSE ~IsSpecial(csv.rows[Len(csv.rows)])
        /\ csv' = [exists |-> TRUE, parses |-> TRUE, columns |-> RequiredSet,
                   rows |-> Append(csv.rows, MkRow(RequiredSet, Len(csv.rows), t))]
    /\ UNCHANGED <<pc, called, args, df, processed_df, data, model, scaler, result, formula,
                   modelFile, metadataFile, loaded, raised, exit_code, diagnostic, history>>
    /\ UNCHANGED predictions

\* df = load_data(path)
CleanLoadData ==
    /\ pc = "write"
    /\ called' = "load_data"
    /\ \E r \in {load_data(csv)} :
        /\ raised' = r.raised
        /\ df' = r.value
        /\ pc' = IF r.raised = "none" THEN "loaded" ELSE "stopped"
    /\ UNCHANGED <<args, csv, processed_df, data, model, scaler, result, formula,
                   modelFile, metadataFile, loaded, exit_code, diagnostic, history>>
    /\ UNCHANGED predictions

\* processed_df = preprocess_data(df)
CleanPreprocessData ==
    /\ pc = "loaded"
    /\ called' = "preprocess_data"
    /\ \E r \in {preprocess_data(df)} :
        /\ df' = r.input
        /\ processed_df' = r.output
    /\ pc' = "cleaned"
    /\ UNCHANGED <<args, csv, data, model, scaler, result, formula,
                   modelFile, metadataFile, loaded, raised, exit_code, diagnostic, history>>
    /\ UNCHANGED predictions

NextClean ==
    \/ CleanWrite
    \/ CleanLoadData
    \/ CleanPreprocessData

SpecClean == InitClean /\ [][NextClean]_vars

----------------------------------------------------------------------------
(* Properties of a run of main (Spec) *)

\* raw feature rows on which the two ways of predicting are compared
ProbeRows == {<<0, 0>>, <<1, 1>>, <<2, 1>>, <<1, 3>>}

\* sum_i row_i * coefficient_i(raw) + intercept(raw)
predict_raw(f, row) ==
    RAdd(Dot([j \in 1..Len(f.coefficients) |-> R(row[j])], f.coefficients), f.intercept)

\* sum_i ((row_i - mean_i) / std_i) * coefficient_i(scaled) + intercept(scaled)
predict_scaled(m, sc, row) == model_predict(m, scaler_transform(sc, <<row>>))[1]

\* intercept(scaled) - sum_i coefficient_i(scaled) * mean_i / std_i
raw_intercept(m, sc) ==
    RSub(m.intercept_,
         RSum([j \in 1..Len(m.coef_) |-> RDiv(RMul(m.coef_[j], sc.mean_[j]), sc.scale_[j])]))

\* C1: once print_result has taken the formula of the fitted model/scaler pair from
\* get_model_formula, the raw intercept is intercept(scaled) minus the sum of
\* coefficient_i(scaled) * mean_i / std_i, and on every raw feature row the raw
\* formula predicts the same value as the scaled model.
FormulaEquivalence ==
    called = "print_result" =>
        /\ formula.intercept = raw_intercept(result.model, result.scaler)
        /\ \A row \in ProbeRows :
              predict_raw(formula, row) = predict_scaled(result.model, result.scaler, row)

\* C2: load_data returns the file's columns and rows unmodified when the source exists,
\* parses and holds every required column (extra columns or not), and fails with
\* DataProcessingError, and no other kind, when the source does not exist, does not
\* parse or lacks a required column.
LoadDataValidatesColumns ==
    called = "load_data" =>
        IF csv.exists /\ csv.parses /\ RequiredSet \subseteq csv.columns
        THEN raised = "none" /\ df = [columns |-> csv.columns, rows |-> csv.rows]
        ELSE raised = "DataProcessingError" /\ df = NoDf

\* load_data has refused an existing, readable file that lacks a required column
LoadDataMissingColumn ==
    /\ called = "load_data"
    /\ csv.exists /\ csv.parses
    /\ Len(csv.rows) > 0
    /\ RequiredSet \ csv.columns # {}
    /\ raised = "DataProcessingError"

\* the number of positions of seq that hold p
Count(seq, p) == Cardinality({i \in DOMAIN seq : seq[i] = p})

\* the <<feature row, target>> pairs of a DataFrame and of the two splits
FramePairs(d) ==
    [i \in DOMAIN d.rows |->
        <<[j \in 1..Len(feature_cols) |-> d.rows[i].val[feature_cols[j]].v],
          d.rows[i].val[target_col].v>>]
SplitPairs(X, y) == [i \in DOMAIN X |-> <<X[i], y[i]>>]

\* C6: when prepare_model_data returns on a cleaned input of n rows, the train and test
\* index sets are disjoint and cover 1..n, |train| + |test| = n for features and for
\* targets, and every <<feature row, target>> pair of the input occurs in the two splits
\* together exactly as often as in the input.
SplitCompleteness ==
    called = "prepare_model_data" /\ raised = "none" =>
        LET n == Len(processed_df.rows)
            s == SplitIndices(n)
            input == FramePairs(processed_df)
            train == SplitPairs(data.X_trained, data.y_trained)
            test == SplitPairs(data.X_test, data.y_test)
        IN  /\ Range(s.train) \cap Range(s.test) = {}
            /\ Range(s.train) \cup Range(s.test) = 1..n
            /\ Len(s.train) + Len(s.test) = n
            /\ Len(data.X_trained) + Len(data.X_test) = n
            /\ Len(data.y_trained) + Len(data.y_test) = n
            /\ Len(data.X_trained) = Len(data.y_trained)
            /\ Len(data.X_test) = Len(data.y_test)
            /\ \A p \in Range(input) \cup Range(train) \cup Range(test) :
                  Count(train, p) + Count(test, p) = Count(input, p)

\* prepare_model_data has split a cleaned input of distinct rows into a train part of
\* several rows and a non-empty test part
SplitOfSeveralRows ==
    /\ called = "prepare_model_data"
    /\ raised = "none"
    /\ Len(data.X_trained) >= 3
    /\ Len(data.X_test) >= 1
    /\ Cardinality(Range(FramePairs(processed_df))) >= 3

\* the stages of main that can raise
Stages ==
    {"load_model", "load_data", "preprocess_data", "prepare_model_data", "train_model",
     "evaluate_model", "save_model", "create_visualization"}

\* C9: when main has returned, its status is 1 exactly when a stage raised and 0 exactly
\* when every executed stage completed; a DataProcessingError is reported through the
\* data-processing diagnostic and nothing else is, a ModelOperationError through the
\* model diagnostic and nothing else is.
ExitStatusAndDiagnostic ==
    pc = "exited" =>
        /\ exit_code \in {0, 1}
        /\ exit_code = 1 <=> raised # "none"
        /\ exit_code = 0 <=> raised = "none"
        /\ raised # "none" => called \in Stages
        /\ raised = "none" => diagnostic = ""
        /\ diagnostic = "failed to process data" <=> raised = "DataProcessingError"
        /\ diagnostic = "model failed to run" <=> raised = "ModelOperationError"

\* main has returned 1 after save_model failed with a ModelOperationError
ExitAfterFailedSave ==
    /\ pc = "exited"
    /\ called = "save_model"
    /\ raised = "ModelOperationError"
    /\ exit_code = 1
    /\ diagnostic = "model failed to run"

\* C10: whenever evaluate_model returns, train RMSE and test RMSE are at least 0 and
\* train R-squared and test R-squared are at most 1.0, a test split of a single row
\* and splits with all targets equal included.
MetricSanity ==
    called = "evaluate_model" /\ raised = "none" =>
        /\ RLe(R(0), result.train_rmse)
        /\ RLe(R(0), result.test_rmse)
        /\ RLe(result.train_r2, R(1))
        /\ RLe(result.test_r2, R(1))

----------------------------------------------------------------------------
(* Properties of the library called directly (SpecApi) *)

\* the file holds a complete pickle of a dictionary with the keys "model" and "scaler"
ModelFileParses(f) ==
    /\ f.exists
    /\ Len(f.bytes) = Len(PickleTags)
    /\ \A i \in DOMAIN f.bytes : f.bytes[i].k = PickleTags[i]
    /\ {"model", "scaler"} \subseteq {f.bytes[i].s : i \in {i \in DOMAIN f.bytes : f.bytes[i].k = "key"}}

\* the file holds a complete JSON object
MetadataFileParses(f) ==
    /\ f.exists
    /\ Len(f.bytes) = Len(JsonTags)
    /\ \A i \in DOMAIN f.bytes : f.bytes[i].k = JsonTags[i]

\* C3: when load_model is called on the two paths the last save_model call succeeded
\* on (and nothing removed a file since), it succeeds and returns a model and a scaler
\* with the coefficients, intercept, means and stds of the saved result, so that the
\* predictions for every row of both splits are those of the saved result.
SaveLoadRoundTrip ==
    called = "load_model" /\ history.intact =>
        /\ raised = "none"
        /\ loaded.model.coef_ = history.saved.model.coef_
        /\ loaded.model.intercept_ = history.saved.model.intercept_
        /\ loaded.scaler.mean_ = history.saved.scaler.mean_
        /\ loaded.scaler.scale_ = history.saved.scaler.scale_
        /\ model_predict(loaded.model, scaler_transform(loaded.scaler, history.savedData.X_trained))
              = history.saved.train_predictions
        /\ model_predict(loaded.model, scaler_transform(loaded.scaler, history.savedData.X_test))
              = history.saved.test_predictions

\* load_model has returned what a successful save_model of a model with two non-zero
\* coefficients wrote
LoadedWhatWasSaved ==
    /\ called = "load_model"
    /\ history.intact
    /\ raised = "none"
    /\ \A j \in DOMAIN loaded.model.coef_ : loaded.model.coef_[j] # R(0)
    /\ loaded.scaler.mean_ # loaded.scaler.scale_
    /\ Len(history.saved.test_predictions) > 0

\* C4: load_model returns (model, scaler, metadata) only when both files exist and
\* parse; when the model file or the metadata file is missing, truncated or foreign it
\* fails with ModelOperationError, with no other kind, and returns nothing.
LoadModelErrors ==
    called = "load_model" =>
        IF ModelFileParses(modelFile) /\ MetadataFileParses(metadataFile)
        THEN raised = "none" /\ loaded.model # NoModel /\ loaded.scaler # NoScaler
             /\ loaded.metadata # NoMetadata
        ELSE raised = "ModelOperationError" /\ loaded = NoLoaded

\* load_model has failed with ModelOperationError on a model file that exists but is
\* truncated or foreign
LoadOfCorruptModelFile ==
    /\ called = "load_model"
    /\ modelFile.exists
    /\ ~ModelFileParses(modelFile)
    /\ raised = "ModelOperationError"
    /\ loaded = NoLoaded

\* C5: after any sequence of save_model calls on the two paths, failed ones included,
\* whenever load_model succeeds the metadata it returns was written by the save_model
\* call that wrote the model/scaler blob it returns.
FilesWrittenAsPair ==
    called = "load_model" /\ raised = "none" =>
        /\ history.modelBy = history.metadataBy
        /\ history.saves > 0 =>
              loaded.metadata.coefficients =
                  get_model_formula([NoResult EXCEPT !.model = loaded.model,
                                                    !.scaler = loaded.scaler]).coefficients

\* C8: when train_model fails, on zero training rows or on a singular design matrix,
\* the error that reaches the caller is a ModelOperationError.
TrainFailureIsModelOperationError ==
    called = "train_model" /\ raised # "none" => raised = "ModelOperationError"

----------------------------------------------------------------------------
(* Properties of preprocess_data on larger files (SpecClean) *)

\* C7: the rows preprocess_data returns are rows of its input, each at most once and in
\* the input's order, each with a numeric value in every required column and with the
\* values of the input row; the caller's DataFrame is as load_data returned it.
CleanIsSubset ==
    called = "preprocess_data" =>
        /\ df = [columns |-> csv.columns, rows |-> csv.rows]
        /\ processed_df.columns = df.columns
        /\ \A k \in DOMAIN processed_df.rows :
              \E i \in DOMAIN df.rows :
                 /\ df.rows[i].idx = processed_df.rows[k].idx
                 /\ \A c \in df.columns :
                       IF c \in RequiredSet
                       THEN /\ df.rows[i].val[c].t = "num"
                            /\ processed_df.rows[k].val[c] = Float(df.rows[i].val[c].v)
                       ELSE processed_df.rows[k].val[c] = df.rows[i].val[c]
        /\ \A k, l \in DOMAIN processed_df.rows :
              k < l => processed_df.rows[k].idx < processed_df.rows[l].idx

\* preprocess_data has dropped a row with a non-numeric field and a row whose fields
\* are all numeric (an outlier), and has kept other rows
CleanDroppedAnOutlier ==
    /\ called = "preprocess_data"
    /\ Len(processed_df.rows) > 0
    /\ \E i \in DOMAIN df.rows :
          /\ \A c \in RequiredSet : df.rows[i].val[c].t = "num"
          /\ \A k \in DOMAIN processed_df.rows : processed_df.rows[k].idx # df.rows[i].idx
    /\ \E i \in DOMAIN df.rows : \E c \in RequiredSet : df.rows[i].val[c].t # "num"

\* the positions of d.rows in K whose value in column col lies strictly outside
\* [mean - k*std, mean + k*std], mean and sample std taken over the rows at K: with n
\* rows, sum S and sum of squares Q, (v - S/n)^2 > k^2 * (n*Q - S^2) / (n*(n-1));
\* with fewer than two rows the std is NaN and no value is outside
StrictlyOutside(d, K, col) ==
    LET n == Cardinality(K)
        S == ISum([i \in DOMAIN d.rows |-> IF i \in K THEN d.rows[i].val[col].v ELSE 0])
        Q == ISum([i \in DOMAIN d.rows |->
                     IF i \in K THEN d.rows[i].val[col].v * d.rows[i].val[col].v ELSE 0])
    IN  {i \in K :
            /\ n >= 2
            /\ (n * d.rows[i].val[col].v - S) * (n * d.rows[i].val[col].v - S) * (n - 1)
                  > outlier_threshold * outlier_threshold * n * (n * Q - S * S)}

\* the positions of d.rows with a number in every required column
NoMissing(d) == {i \in DOMAIN d.rows : \A c \in RequiredSet : d.rows[i].val[c].t = "num"}

\* the positions left after the columns required_cols[1..j] were filtered in turn
RECURSIVE Survivors(_, _)
Survivors(d, j) ==
    IF j = 0 THEN NoMissing(d)
    ELSE Let1(LAMBDA K : K \ StrictlyOutside(d, K, required_cols[j]), Survivors(d, j - 1))

\* C11: preprocess_data filters the required columns in order: the rows it returns are
\* the rows that survive missing-row removal and then, column by column, are not
\* strictly outside [mean - k*std, mean + k*std] with mean and sample std taken over
\* the rows that survived the earlier columns only; a value on a bound is kept.
OutlierRemovalIsSequential ==
    called = "preprocess_data" =>
        {processed_df.rows[k].idx : k \in DOMAIN processed_df.rows}
            = {df.rows[i].idx : i \in Survivors(df, Len(required_cols))}

\* preprocess_data has dropped a row for bedrooms that is within the bounds taken over
\* all rows without missing values: it is outside only once the square_footage outlier
\* is gone
DroppedOnlyAfterEarlierColumn ==
    /\ called = "preprocess_data"
    /\ \E i \in Survivors(df, 1) \ Survivors(df, 2) :
          /\ i \notin StrictlyOutside(df, NoMissing(df), "bedrooms")
          /\ \A k \in DOMAIN processed_df.rows : processed_df.rows[k].idx # df.rows[i].idx
    /\ Survivors(df, 0) # Survivors(df, 1)

\* preprocess_data has kept a row whose square_footage equals the upper bound
KeptValueOnBound ==
    /\ called = "preprocess_data"
    /\ \E k \in DOMAIN processed_df.rows :
          LET K == NoMissing(df)
              n == Cardinality(K)
              S == ISum([i \in DOMAIN df.rows |->
                           IF i \in K THEN df.rows[i].val["square_footage"].v ELSE 0])
              Q == ISum([i \in DOMAIN df.rows |->
                           IF i \in K THEN df.rows[i].val["square_footage"].v
                                             * df.rows[i].val["square_footage"].v ELSE 0])
              v == processed_df.rows[k].val["square_footage"].v
          IN  /\ n * v > S
              /\ (n * v - S) * (n * v - S) * (n - 1)
                    = outlier_threshold * outlier_threshold * n * (n * Q - S * S)

----------------------------------------------------------------------------
(* The scaler and the model after training (Spec) *)

\* sc holds the per-feature mean and population std of the rows of X and of nothing
\* else: n * mean_j is the column sum, and scale_j is 1 for a constant column and
\* otherwise the square root of the column's variance, rounded down to the grid
FittedOn(sc, X) ==
    LET n == Len(X)
    IN  /\ Len(sc.mean_) = Len(feature_cols)
        /\ Len(sc.scale_) = Len(feature_cols)
        /\ \A j \in 1..Len(feature_cols) :
              LET S == ISum([i \in 1..n |-> X[i][j]])
                  Q == ISum([i \in 1..n |-> X[i][j] * X[i][j]])
                  var == Rat(n * Q - S * S, n * n)
                  s == sc.scale_[j]
              IN  /\ sc.mean_[j] = Rat(S, n)
                  /\ IF var = R(0) THEN s = R(1)
                     ELSE /\ RLe(RMul(s, s), var)
                          /\ RLt(var, RMul(RAdd(s, Rat(1, SqrtGrid)), RAdd(s, Rat(1, SqrtGrid))))

\* the stages of a training run that follow train_model
LaterStages == {"evaluate_model", "print_result", "save_model", "create_visualization"}

\* C12: in a training run the scaler is assigned by train_model only, its mean and std
\* are those of X_trained alone, and evaluate_model and every later stage leave the
\* scaler's mean/std and the model's coefficients/intercept as train_model returned
\* them, in main's variables and inside the ModelResult.
ScalerFittedOnceOnTrain ==
    [][/\ scaler' # scaler \/ model' # model => called' \in {"train_model", "load_model"}
       /\ called' = "train_model" /\ raised' = "none" => FittedOn(scaler', data'.X_trained)
       /\ called' \in LaterStages =>
             /\ scaler' = scaler /\ model' = model
             /\ FittedOn(scaler', data'.X_trained)
             /\ result' # NoResult => result'.scaler = scaler' /\ result'.model = model'
      ]_vars

\* a training run has completed all its stages with a test split whose rows would have
\* changed the scaler's mean had they been fitted on
TrainedWithDistinctTestRows ==
    /\ pc = "exited"
    /\ exit_code = 0
    /\ called = "create_visualization"
    /\ args.save_model
    /\ result.scaler = scaler
    /\ ~FittedOn(scaler, data.X_trained \o data.X_test)

----------------------------------------------------------------------------
(* make_predictions (SpecApi) *)

\* C13: make_predictions on a cleaned dataset, with the model and scaler train_model
\* returned or load_model returned, does not fail and returns one prediction per row,
\* equal to the model applied to the scaled feature columns (square_footage, bedrooms).
MakePredictionsOnFeatureColumns ==
    called = "make_predictions" /\ Len(processed_df.rows) > 0 =>
        /\ raised = "none"
        /\ Len(predictions) = Len(processed_df.rows)
        /\ \/ predictions =
                 model_predict(model, scaler_transform(scaler, to_numpy(processed_df, feature_cols)))
           \/ predictions =
                 model_predict(loaded.model,
                               scaler_transform(loaded.scaler, to_numpy(processed_df, feature_cols)))

====
